---- MODULE Spec2Model ----
\* Verification model of the ESAC Astropy workshop repository: the README
\* installation procedures (shell session) and the instructor notebooks
\* (a Jupyter kernel executing code cells in order).
EXTENDS Integers, Sequences, FiniteSets, TLC

VARIABLES
  readme,     \* README variant the participant follows
  option,     \* installation option followed: "list", "opt1", "opt3", "opt4"
  condaNew,   \* TRUE when the conda version understands `conda activate`
  step,       \* number of shell commands of the option already executed
  envs,       \* names of the conda environments that exist
  active,     \* name of the active conda environment
  installed,  \* requirements installed so far: records [name, spec]
  shellErr,   \* TRUE when the last shell command failed
  nb,         \* notebook opened in the kernel ("" before launch)
  pc,         \* index of the next code cell Run All executes
  ns,         \* names bound in the kernel namespace
  err,        \* "" or the exception class that stopped Run All
  errLine,    \* source line of the statement that raised (0 when none)
  \* photometry notebook, from the image to the challenge cells #1 and #2
  photStage,  \* "idle", "loaded", "background", "subtracted", "noise",
              \* "detected", "apphot", "measured" or "selected"
  image,      \* pixels of star_image.data (<< >> before the image is loaded)
  bkgCall,    \* the array given to Background2D
  bkg,        \* pixels of bkg.background
  star_image_nobkg, \* pixels of the background-subtracted image
  statsArg,   \* the array given to sigma_clipped_stats
  std,        \* std returned by sigma_clipped_stats (0 before)
  threshold,  \* threshold given to DAOStarFinder (0 before)
  detectArg,  \* the array given to daofind
  apCalls,    \* aperture_photometry calls made: radius and array given
  sources,    \* row ids of the table DAOStarFinder returned
  sum5,       \* apphot_table_5['aperture_sum'], one value per row
  sum10,      \* apphot_table_10['aperture_sum'], one value per row
  subtable,   \* row ids of sources kept in subtable, in table order
  \* timeseries notebook, Nobel Challenge (Part 1)
  fileRows,   \* rows of the radial-velocity table on disk: [Set, RV]
  readCall,   \* path and keywords of the TimeSeries.read call of step 1
  ts_51peg,   \* rows of ts_51peg in the kernel (<< >> before step 1)
  runs3,      \* executions of the step 3 cell since ts_51peg was read
  frequency,  \* frequency grid of step 4, in thousandths per day
  power,      \* periodogram power of step 4, one value per grid frequency
  period,     \* period of step 4 in days, as a fraction (Unbound before)
  foldPeriod, \* period= argument of the fold call of step 5 (Unbound before)
  \* distributions notebook, Nobel Challenge (Part 3)
  carried,    \* TRUE once the 'Carried over from Part 1' cell has run
  mstar,      \* samples of mstar, in hundredths of a solar mass
  r,          \* samples of r: the expression computed and the mass it used
  rPlot,      \* "" or the outcome of r.distribution.to(u.au) in cell #8
  pc18,       \* index of the next code cell of the notebook to be run
  ns18,       \* names bound in the kernel of the distributions notebook
  errCells,   \* indices of the cells that raised when they were run
  carriedVals, \* period, amplitude, amplitude_err as the carried-over cell binds them
  nsamples,   \* n_samples of every name bound to a Distribution
  cosi,       \* samples of cosi, in thousandths
  sini,       \* samples of sini, in thousandths
  vobsArgs,   \* mean and std given to unc.normal for vobs
  vobs,       \* samples of vobs, in millionths of m/s
  mp,         \* samples of mp: the expression computed and the samples it used
  mpPlot,     \* "" or the outcome of mp.distribution.to(u.M_jup) in cell #9
  pct         \* percentiles asked for in cell #10, in hundredths of a percent

pipeVars == <<image, bkgCall, bkg, star_image_nobkg, statsArg, std, threshold,
             detectArg, apCalls>>
photVars == <<photStage, sources, sum5, sum10, subtable, pipeVars>>
rvVars == <<fileRows, readCall, ts_51peg, runs3,
           frequency, power, period, foldPeriod>>
distVars == <<carried, mstar, r, rPlot, pc18, ns18, errCells, carriedVals,
             nsamples, cosi, sini, vobsArgs, vobs, mp, mpPlot, pct>>
challengeVars == <<photVars, rvVars, distVars>>

vars == <<readme, option, condaNew, step, envs, active, installed, shellErr,
          nb, pc, ns, err, errLine, challengeVars>>
shellVars == <<readme, option, condaNew, step, envs, active, installed, shellErr>>
kernelVars == <<nb, pc, ns, err, errLine>>

\* ---------------------------------------------------------------------------
\* README: required software and installation commands
\* ---------------------------------------------------------------------------

\* One requirement: distribution name as written and version constraint.
Req(name, spec) == [name |-> name, spec |-> spec]

\* The required-software list with its last item, PyVO, left out.
Required_NoPyVO ==
  { Req("Python", ">=3.5"), Req("Jupyter Notebook", ""), Req("Numpy", ""),
    Req("Matplotlib", ""), Req("SciPy", ""), Req("Astropy", ">=3.2"),
    Req("reproject", ""), Req("photutils", ""), Req("regions", ""),
    Req("astropy-healpix", ""), Req("astroquery", ""), Req("APLpy", "") }

\* "To run all the notebooks ... you will need the following software installed"
Required ==
  { Req("Python", ">=3.5"), Req("Jupyter Notebook", ""), Req("Numpy", ""),
    Req("Matplotlib", ""), Req("SciPy", ""), Req("Astropy", ">=3.2"),
    Req("reproject", ""), Req("photutils", ""), Req("regions", ""),
    Req("astropy-healpix", ""), Req("astroquery", ""), Req("APLpy", ""),
    Req("PyVO", "") }

\* One install command: the tool that runs it and the requirements it names.
Cmd(tool, reqs) == [tool |-> tool, reqs |-> reqs]

\* Option 3: Manual conda installation (three commands, in order).
Option3 ==
  << Cmd("conda", { Req("notebook", ""), Req("numpy", ""), Req("matplotlib", ""),
                    Req("scipy", ""), Req("astropy", ">=3.2") }),
     Cmd("conda", { Req("reproject", ""), Req("photutils", ""),
                    Req("astropy-healpix", ""), Req("regions", ""),
                    Req("astroquery", ""), Req("aplpy", "") }),
     Cmd("pip",   { Req("PyVO", "") }) >>

\* Option 4 with astropy unpinned and regions forgotten.
Option4_Unpinned ==
  << Cmd("pip", { Req("notebook", ""), Req("numpy", ""), Req("matplotlib", ""),
                  Req("scipy", ""), Req("astropy", "") }),
     Cmd("pip", { Req("reproject", ""), Req("photutils", ""),
                  Req("astropy-healpix", ""), Req("astroquery", ""),
                  Req("aplpy", ""), Req("PyVO", "") }) >>

\* Option 4: Manual pip installation (two commands, in order).
Option4 ==
  << Cmd("pip", { Req("notebook", ""), Req("numpy", ""), Req("matplotlib", ""),
                  Req("scipy", ""), Req("astropy", ">=3.2") }),
     Cmd("pip", { Req("reproject", ""), Req("photutils", ""),
                  Req("astropy-healpix", ""), Req("regions", ""),
                  Req("astroquery", ""), Req("aplpy", ""), Req("PyVO", "") }) >>

\* Option 1 of each README variant: the environment named by the create
\* command, by `conda activate` and by the `source activate` fallback.
Option1 ==
  [ v \in {"README.md", "part_000", "part_001"} |->
      CASE v = "README.md" -> [create |-> "astropy-workshop",
                               activate |-> "astropy-course",
                               fallback |-> "astropy-course"]
        [] v = "part_000"  -> [create |-> "astropy-workshop",
                               activate |-> "astropy-course",
                               fallback |-> "py37"]
        [] v = "part_001"  -> [create |-> "astropy-workshop",
                               activate |-> "astropy-workshop",
                               fallback |-> "astropy-workshop"] ]

Readmes == DOMAIN Option1

\* Package-index name normalisation (case-insensitive; the list item
\* "Jupyter Notebook" is the distribution `notebook`).
Canon(name) ==
  CASE name = "Jupyter Notebook" -> "notebook"
    [] name = "Python"     -> "python"
    [] name = "Numpy"      -> "numpy"
    [] name = "Matplotlib" -> "matplotlib"
    [] name = "SciPy"      -> "scipy"
    [] name = "Astropy"    -> "astropy"
    [] name = "APLpy"      -> "aplpy"
    [] name = "PyVO"       -> "pyvo"
    [] OTHER               -> name

\* Top-level module a distribution provides to `import`.
Provides(dist) ==
  CASE dist = "astropy-healpix" -> "astropy_healpix"
    [] OTHER                    -> dist

Normalise(reqs) == { Req(Canon(q.name), q.spec) : q \in reqs }

Modules(inst) == { Provides(q.name) : q \in inst }

\* ---------------------------------------------------------------------------
\* Notebooks: code cells as statements
\* ---------------------------------------------------------------------------

\* One statement of a code cell: source line, syntactic kind, the names it
\* reads, the names it binds and the top-level modules it imports.
S(line, kind, uses, binds, mods) ==
  [line |-> line, kind |-> kind, uses |-> uses, binds |-> binds, mods |-> mods]

\* Code cells of instructor/08-wcsaxes_instructor.ipynb (one tuple per cell, one S per statement).
Nb08 ==
  << << S(55, "Magic", {}, {}, {}),
        S(56, "Import", {}, {"plt"}, {"matplotlib"}),
        S(57, "Expr", {"plt"}, {}, {}),
        S(58, "Expr", {"plt"}, {}, {}) >>,
     << S(76, "ImportFrom", {}, {"fits"}, {"astropy"}),
        S(77, "Assign", {"fits"}, {"hdulist"}, {}) >>,
     << S(93, "ImportFrom", {}, {"WCS"}, {"astropy"}),
        S(94, "Assign", {"WCS", "hdulist"}, {"wcs"}, {}) >>,
     << S(110, "Assign", {"plt", "wcs"}, {"ax"}, {}),
        S(111, "Expr", {"ax", "hdulist"}, {}, {}),
        S(112, "Expr", {"ax"}, {}, {}) >>,
     << S(134, "Assign", {"ax"}, {"lon"}, {}),
        S(135, "Assign", {"ax"}, {"lat"}, {}) >>,
     << S(151, "Assign", {"ax"}, {"lon"}, {}),
        S(152, "Assign", {"ax"}, {"lat"}, {}) >>,
     << S(168, "Expr", {"lon"}, {}, {}),
        S(169, "Expr", {"lat"}, {}, {}),
        S(170, "Expr", {"ax"}, {}, {}) >>,
     << S(186, "Expr", {"lon"}, {}, {}),
        S(187, "Expr", {"lat"}, {}, {}),
        S(188, "Expr", {"ax"}, {}, {}) >>,
     << S(204, "ImportFrom", {}, {"u"}, {"astropy"}),
        S(205, "Expr", {"lon", "u"}, {}, {}),
        S(206, "Expr", {"lat"}, {}, {}),
        S(207, "Expr", {"ax"}, {}, {}) >>,
     << S(223, "Expr", {"lon"}, {}, {}),
        S(224, "Expr", {"lon"}, {}, {}),
        S(225, "Expr", {"lon"}, {}, {}),
        S(226, "Expr", {"lat"}, {}, {}),
        S(227, "Expr", {"lat"}, {}, {}),
        S(228, "Expr", {"lat"}, {}, {}),
        S(229, "Expr", {"ax"}, {}, {}) >>,
     << S(247, "Assign", {"plt", "wcs"}, {"ax"}, {}),
        S(248, "Expr", {"ax", "hdulist"}, {}, {}) >>,
     << S(257, "Expr", {"ax"}, {}, {}),
        S(258, "Expr", {"ax"}, {}, {}) >>,
     << S(274, "Expr", {"ax"}, {}, {}),
        S(275, "Expr", {"ax"}, {}, {}) >>,
     << S(293, "Assign", {"fits"}, {"hdulist_iras"}, {}),
        S(294, "Assign", {"WCS", "hdulist_iras"}, {"wcs_iras"}, {}) >>,
     << S(303, "Assign", {"plt", "wcs"}, {"ax"}, {}),
        S(304, "Expr", {"ax", "hdulist"}, {}, {}),
        S(305, "Expr", {"ax", "hdulist_iras", "wcs_iras"}, {}, {}) >>,
     << S(324, "Assign", {"plt", "wcs"}, {"ax"}, {}),
        S(325, "Expr", {"ax", "hdulist"}, {}, {}),
        S(327, "Assign", {"ax"}, {"lat", "lon"}, {}),
        S(328, "Expr", {"lon"}, {}, {}),
        S(329, "Expr", {"lat"}, {}, {}),
        S(331, "Assign", {"ax"}, {"dec", "ra"}, {}),
        S(333, "Expr", {"dec"}, {}, {}),
        S(334, "Expr", {"dec"}, {}, {}),
        S(335, "Expr", {"dec"}, {}, {}),
        S(336, "Expr", {"dec"}, {}, {}),
        S(338, "Expr", {"ra"}, {}, {}),
        S(339, "Expr", {"ra"}, {}, {}),
        S(340, "Expr", {"ra"}, {}, {}),
        S(341, "Expr", {"ra"}, {}, {}),
        S(343, "Expr", {"lon"}, {}, {}),
        S(344, "Expr", {"lat"}, {}, {}),
        S(345, "Expr", {"ra"}, {}, {}),
        S(346, "Expr", {"dec"}, {}, {}) >>,
     << S(364, "ImportFrom", {}, {"simple_norm"}, {"astropy"}) >>,
     << S(373, "Assign", {"hdulist", "simple_norm"}, {"sqrt_norm"}, {}) >>,
     << S(382, "Expr", {"hdulist", "plt", "sqrt_norm"}, {}, {}) >>,
     << S(416, "ImportFrom", {}, {"gaussian_filter"}, {"scipy"}),
        S(417, "Assign", {"plt", "wcs_iras"}, {"ax"}, {}),
        S(418, "Expr", {"ax", "hdulist_iras"}, {}, {}),
        S(419, "Expr", {"ax", "gaussian_filter", "hdulist", "wcs"}, {}, {}),
        S(421, "Expr", {"ax"}, {}, {}),
        S(422, "Expr", {"ax"}, {}, {}),
        S(425, "ImportFrom", {}, {"Table"}, {"astropy"}),
        S(426, "Assign", {"Table"}, {"psc"}, {}),
        S(427, "Expr", {"ax", "psc"}, {}, {}) >>,
     << S(445, "Import", {}, {"aplpy"}, {"aplpy"}),
        S(446, "Assign", {"aplpy"}, {"fig"}, {}),
        S(447, "Expr", {"fig"}, {}, {}),
        S(448, "Expr", {"fig"}, {}, {}) >>,
     << S(464, "Expr", {"fig"}, {}, {}) >> >>

\* Code cells of instructor/14-photometry_instructor.ipynb (one tuple per cell, one S per statement).
Nb14 ==
  << << S(54, "Magic", {}, {}, {}),
        S(55, "Import", {}, {"plt"}, {"matplotlib"}),
        S(56, "Expr", {"plt"}, {}, {}),
        S(57, "Expr", {"plt"}, {}, {}) >>,
     << S(75, "ImportFrom", {}, {"load_star_image"}, {"photutils"}),
        S(76, "Assign", {"load_star_image"}, {"star_image"}, {}),
        S(77, "Expr", {"star_image"}, {}, {}) >>,
     << S(93, "Expr", {"plt", "star_image"}, {}, {}) >>,
     << S(109, "Assign", {"plt", "star_image"}, {"_"}, {}) >>,
     << S(125, "ImportFrom", {}, {"SigmaClip"}, {"astropy"}),
        S(126, "ImportFrom", {}, {"Background2D", "MedianBackground"}, {"photutils"}) >>,
     << S(135, "Assign", {"SigmaClip"}, {"sigma_clip"}, {}),
        S(136, "Assign", {"MedianBackground"}, {"bkg_estimator"}, {}) >>,
     << S(145, "Assign", {"Background2D", "bkg_estimator", "sigma_clip", "star_image"}, {"bkg"}, {}) >>,
     << S(156, "Expr", {"bkg", "plt"}, {}, {}) >>,
     << S(165, "Assign", {"bkg", "star_image"}, {"star_image_nobkg"}, {}) >>,
     << S(174, "Expr", {"plt", "star_image_nobkg"}, {}, {}) >>,
     << S(183, "Assign", {"plt", "star_image_nobkg"}, {"_"}, {}) >>,
     << S(201, "ImportFrom", {}, {"sigma_clipped_stats"}, {"astropy"}),
        S(202, "Assign", {"sigma_clipped_stats", "star_image_nobkg"}, {"mean", "median", "std"}, {}),
        S(203, "Expr", {"mean", "median", "print", "std"}, {}, {}) >>,
     << S(219, "ImportFrom", {}, {"DAOStarFinder"}, {"photutils"}),
        S(220, "Assign", {"DAOStarFinder", "std"}, {"daofind"}, {}),
        S(221, "Assign", {"daofind", "star_image_nobkg"}, {"sources"}, {}) >>,
     << S(237, "Expr", {"sources"}, {}, {}) >>,
     << S(246, "Assign", {"star_image_nobkg"}, {"subset"}, {}),
        S(247, "Assign", {"std", "subset"}, {}, {}) >>,
     << S(256, "Expr", {"plt", "star_image_nobkg"}, {}, {}),
        S(257, "Expr", {"plt", "sources"}, {}, {}),
        S(258, "Expr", {"plt"}, {}, {}),
        S(259, "Expr", {"plt"}, {}, {}) >>,
     << S(277, "ImportFrom", {}, {"CircularAperture"}, {"photutils"}),
        S(278, "Assign", {"CircularAperture", "list", "sources", "zip"}, {"apertures"}, {}) >>,
     << S(294, "ImportFrom", {}, {"aperture_photometry"}, {"photutils"}),
        S(295, "Assign", {"aperture_photometry", "apertures", "star_image_nobkg"}, {"apphot_table"}, {}),
        S(296, "Expr", {"apphot_table"}, {}, {}) >>,
     << S(305, "Expr", {"apphot_table", "plt"}, {}, {}) >>,
     << S(345, "Assign", {"CircularAperture", "list", "sources", "zip"}, {"apertures_5"}, {}),
        S(346, "Assign", {"aperture_photometry", "apertures_5", "star_image_nobkg"}, {"apphot_table_5"}, {}),
        S(347, "Assign", {"CircularAperture", "list", "sources", "zip"}, {"apertures_10"}, {}),
        S(348, "Assign", {"aperture_photometry", "apertures_10", "star_image_nobkg"}, {"apphot_table_10"}, {}),
        S(349, "Expr", {"apphot_table_10", "apphot_table_5", "plt"}, {}, {}),
        S(350, "Expr", {"plt"}, {}, {}) >>,
     << S(360, "Assign", {"apphot_table_10", "apphot_table_5"}, {"frac"}, {}),
        S(361, "Assign", {"frac"}, {"agree"}, {}),
        S(362, "Assign", {"agree", "sources"}, {"subtable"}, {}),
        S(363, "Expr", {"subtable"}, {}, {}) >> >>

\* The cell at lines 189-190 with its import of SkyCoord left out.
Nb15_SkyCoordCell_NoImport ==
  << S(190, "Expr", {"SkyCoord", "hp"}, {}, {}) >>

\* Code cell at lines 189-190 of instructor/15-healpix_instructor.ipynb.
Nb15_SkyCoordCell ==
  << S(189, "ImportFrom", {}, {"SkyCoord"}, {"astropy"}),
     S(190, "Expr", {"SkyCoord", "hp"}, {}, {}) >>

\* Code cells of instructor/15-healpix_instructor.ipynb (one tuple per cell, one S per statement).
Nb15 ==
  << << S(63, "Magic", {}, {}, {}),
        S(64, "Import", {}, {"plt"}, {"matplotlib"}),
        S(65, "Expr", {"plt"}, {}, {}),
        S(66, "Expr", {"plt"}, {}, {}) >>,
     << S(93, "ImportFrom", {}, {"fits"}, {"astropy"}),
        S(94, "Assign", {"fits"}, {"hdulist"}, {}),
        S(95, "Expr", {"hdulist"}, {}, {}) >>,
     << S(111, "Expr", {"hdulist"}, {}, {}) >>,
     << S(120, "Expr", {"hdulist"}, {}, {}) >>,
     << S(129, "Expr", {"hdulist"}, {}, {}) >>,
     << S(145, "ImportFrom", {}, {"HEALPix"}, {"astropy_healpix"}),
        S(146, "ImportFrom", {}, {"Galactic"}, {"astropy"}) >>,
     << S(155, "Assign", {"Galactic", "HEALPix", "hdulist"}, {"hp"}, {}) >>,
     << S(173, "Expr", {"hp"}, {}, {}) >>,
     Nb15_SkyCoordCell,
     << S(206, "Assign", {"hp"}, {"edge"}, {}),
        S(207, "Expr", {"edge"}, {}, {}) >>,
     << S(223, "Expr", {"edge", "plt"}, {}, {}) >>,
     << S(239, "ImportFrom", {}, {"u"}, {"astropy"}),
        S(240, "Expr", {"SkyCoord", "hp", "u"}, {}, {}) >>,
     << S(256, "Expr", {"SkyCoord", "hdulist", "hp"}, {}, {}) >>,
     << S(289, "Import", {}, {"np"}, {"numpy"}),
        S(290, "Assign", {"SkyCoord"}, {"M42"}, {}),
        S(291, "Assign", {"M42", "hp", "u"}, {"m42_pixels"}, {}),
        S(292, "Expr", {"hdulist", "m42_pixels", "np", "print"}, {}, {}) >>,
     << S(302, "Assign", {"hp", "m42_pixels"}, {"m42_cone_search_coords"}, {}),
        S(303, "Assign", {"M42", "m42_cone_search_coords"}, {"separation"}, {}),
        S(304, "Assign", {"plt", "separation"}, {"_"}, {}) >>,
     << S(322, "ImportFrom", {}, {"WCS"}, {"astropy"}),
        S(323, "Assign", {"WCS"}, {"wcs"}, {}),
        S(324, "Assign", {"wcs"}, {}, {}),
        S(325, "Assign", {"wcs"}, {}, {}),
        S(326, "Assign", {"wcs"}, {}, {}),
        S(327, "Assign", {"wcs"}, {}, {}) >>,
     << S(343, "ImportFrom", {}, {"reproject_from_healpix"}, {"reproject"}) >>,
     << S(352, "Assign", {"reproject_from_healpix", "wcs"}, {"array", "footprint"}, {}) >>,
     << S(362, "Expr", {"array", "plt"}, {}, {}) >>,
     << S(402, "Assign", {"fits"}, {"header_gaia"}, {}),
        S(403, "Assign", {"fits"}, {"header_irsa"}, {}),
        S(405, "Assign", {"header_gaia", "reproject_from_healpix"}, {"_", "array_gaia"}, {}),
        S(407, "Assign", {"header_irsa", "reproject_from_healpix"}, {"_", "array_irsa"}, {}) >>,
     << S(418, "ImportFrom", {}, {"simple_norm"}, {"astropy"}),
        S(419, "Assign", {"WCS", "header_gaia", "plt"}, {"ax"}, {}),
        S(420, "Assign", {"array_gaia", "ax", "simple_norm"}, {"im"}, {}),
        S(422, "Expr", {"im", "plt"}, {}, {}),
        S(423, "Expr", {"ax"}, {}, {}),
        S(424, "Expr", {"ax"}, {}, {}),
        S(425, "Expr", {"ax"}, {}, {}) >> >>

\* Code cells of instructor/17-timeseries_instructor.ipynb (one tuple per cell, one S per statement).
Nb17 ==
  << << S(57, "Magic", {}, {}, {}),
        S(58, "Import", {}, {"plt"}, {"matplotlib"}),
        S(59, "Expr", {"plt"}, {}, {}),
        S(60, "Expr", {"plt"}, {}, {}) >>,
     << S(85, "ImportFrom", {}, {"TimeSeries"}, {"astropy"}) >>,
     << S(101, "ImportFrom", {}, {"u"}, {"astropy"}),
        S(102, "Assign", {"TimeSeries", "u"}, {"ts1"}, {}),
        S(105, "Expr", {"ts1"}, {}, {}) >>,
     << S(121, "Assign", {"TimeSeries"}, {"ts2"}, {}),
        S(124, "Expr", {"ts2"}, {}, {}) >>,
     << S(140, "Import", {}, {"np"}, {"numpy"}),
        S(141, "ImportFrom", {}, {"Time"}, {"astropy"}),
        S(142, "Assign", {"Time", "np"}, {"time"}, {}),
        S(143, "Assign", {"TimeSeries", "time"}, {"ts3"}, {}),
        S(144, "Expr", {"ts3"}, {}, {}) >>,
     << S(160, "Assign", {"ts3", "u"}, {}, {}),
        S(161, "Assign", {"ts3", "u"}, {}, {}),
        S(162, "Expr", {"ts3"}, {}, {}) >>,
     << S(180, "Expr", {"ts3"}, {}, {}) >>,
     << S(189, "Expr", {"ts3"}, {}, {}) >>,
     << S(198, "Expr", {"ts3"}, {}, {}) >>,
     << S(207, "Expr", {"ts3"}, {}, {}) >>,
     << S(216, "Expr", {"ts3"}, {}, {}) >>,
     << S(225, "Expr", {"ts3"}, {}, {}) >>,
     << S(241, "Expr", {"ts3"}, {}, {}) >>,
     << S(257, "Expr", {"ts3"}, {}, {}) >>,
     << S(266, "Expr", {"ts3"}, {}, {}) >>,
     << S(282, "Assign", {"ts3"}, {}, {}) >>,
     << S(291, "Expr", {"ts3"}, {}, {}) >>,
     << S(309, "ImportFrom", {}, {"TimeDelta"}, {"astropy"}),
        S(310, "Assign", {"TimeDelta", "TimeSeries", "u"}, {"ts4"}, {}),
        S(311, "Expr", {"ts4"}, {}, {}) >>,
     << S(327, "Assign", {"TimeSeries", "ts3"}, {"ts5"}, {}),
        S(328, "Expr", {"ts5"}, {}, {}) >>,
     << S(346, "ImportFrom", {}, {"Table"}, {"astropy"}),
        S(348, "Assign", {"TimeSeries", "u"}, {"ts_a"}, {}),
        S(352, "Assign", {"TimeSeries", "u"}, {"ts_b"}, {}),
        S(356, "Assign", {"Table", "u"}, {"data"}, {}) >>,
     << S(372, "ImportFrom", {}, {"hstack"}, {"astropy"}) >>,
     << S(381, "Assign", {"data", "hstack", "ts_a"}, {"tsh"}, {}),
        S(382, "Expr", {"tsh"}, {}, {}) >>,
     << S(398, "ImportFrom", {}, {"vstack"}, {"astropy"}) >>,
     << S(407, "Assign", {"ts_a", "ts_b", "vstack"}, {"tsv"}, {}),
        S(408, "Expr", {"tsv"}, {}, {}) >>,
     << S(426, "Expr", {"tsv"}, {}, {}),
        S(427, "Expr", {"tsv"}, {}, {}) >>,
     << S(445, "Assign", {"TimeSeries", "np", "u"}, {"ts_synth"}, {}),
        S(447, "Assign", {"np", "ts_synth"}, {}, {}),
        S(448, "AugAssign", {"np", "ts_synth"}, {}, {}) >>,
     << S(457, "Expr", {"plt", "ts_synth"}, {}, {}) >>,
     << S(473, "Assign", {"ts_synth", "u"}, {"folded"}, {}),
        S(474, "Expr", {"folded"}, {}, {}) >>,
     << S(483, "Expr", {"folded", "u"}, {}, {}) >>,
     << S(492, "Expr", {"folded", "plt", "ts_synth", "u"}, {}, {}) >>,
     << S(510, "ImportFrom", {}, {"LombScargle"}, {"astropy"}) >>,
     << S(519, "Assign", {"LombScargle", "ts_synth"}, {"ls"}, {}) >>,
     << S(535, "Assign", {"ls"}, {"frequency", "power"}, {}) >>,
     << S(544, "Expr", {"frequency"}, {}, {}) >>,
     << S(553, "Expr", {"power"}, {}, {}) >>,
     << S(562, "Expr", {"frequency", "plt", "power"}, {}, {}) >>,
     << S(578, "Assign", {"ls", "u"}, {"frequency", "power"}, {}),
        S(580, "Expr", {"frequency", "plt", "power"}, {}, {}) >>,
     << S(596, "Assign", {"np", "power"}, {"peak"}, {}),
        S(597, "Expr", {"frequency", "peak"}, {}, {}) >>,
     << S(606, "Expr", {"frequency", "peak"}, {}, {}) >>,
     << S(631, "Assign", {"TimeSeries"}, {"ts_file"}, {}),
        S(633, "Expr", {"ts_file"}, {}, {}) >>,
     << S(677, "Assign", {"TimeSeries"}, {"ts_51peg"}, {}) >>,
     << S(688, "Expr", {"plt", "ts_51peg"}, {}, {}) >>,
     << S(698, "AugAssign", {"ts_51peg", "u"}, {}, {}),
        S(699, "AugAssign", {"ts_51peg", "u"}, {}, {}),
        S(700, "AugAssign", {"ts_51peg", "u"}, {}, {}),
        S(701, "AugAssign", {"ts_51peg", "u"}, {}, {}),
        S(702, "AugAssign", {"ts_51peg", "u"}, {}, {}),
        S(703, "AugAssign", {"ts_51peg", "u"}, {}, {}),
        S(704, "Expr", {"plt", "ts_51peg"}, {}, {}) >>,
     << S(714, "Assign", {"LombScargle", "ts_51peg"}, {"ls"}, {}),
        S(715, "Assign", {"ls", "u"}, {"frequency", "power"}, {}),
        S(716, "Expr", {"frequency", "plt", "power"}, {}, {}),
        S(717, "Assign", {"frequency", "np", "power"}, {"period"}, {}),
        S(718, "Expr", {"period", "print"}, {}, {}) >>,
     << S(728, "Assign", {"period", "ts_51peg"}, {"ts_51peg_folded"}, {}),
        S(729, "Expr", {"plt", "ts_51peg_folded", "u"}, {}, {}) >>,
     << S(763, "ImportFrom", {}, {"fitting", "models"}, {"astropy"}),
        S(764, "Assign", {"fitting"}, {"fitter"}, {}),
        S(765, "Assign", {"models", "u"}, {"model_init"}, {}),
        S(766, "Assign", {"ts_51peg_folded", "u"}, {"x"}, {}),
        S(767, "Assign", {"ts_51peg_folded"}, {"y"}, {}),
        S(768, "Assign", {"fitter", "model_init", "x", "y"}, {"model_fit"}, {}),
        S(769, "Expr", {"plt", "x", "y"}, {}, {}),
        S(770, "Expr", {"model_fit", "plt", "x"}, {}, {}),
        S(771, "Assign", {"model_fit"}, {"amplitude"}, {}),
        S(772, "Expr", {"amplitude", "print"}, {}, {}) >>,
     << S(782, "Assign", {"fitter", "u"}, {"amplitude_err"}, {}),
        S(783, "Expr", {"amplitude_err"}, {}, {}) >> >>

\* Code cells of instructor/18-distributions_instructor.ipynb (one tuple per cell, one S per statement).
Nb18 ==
  << << S(53, "Magic", {}, {}, {}),
        S(54, "Import", {}, {"plt"}, {"matplotlib"}),
        S(55, "Expr", {"plt"}, {}, {}),
        S(56, "Expr", {"plt"}, {}, {}) >>,
     << S(74, "ImportFrom", {}, {"u"}, {"astropy"}),
        S(75, "ImportFrom", {}, {"unc"}, {"astropy"}) >>,
     << S(84, "Assign", {"u", "unc"}, {"distance"}, {}),
        S(85, "Expr", {"distance"}, {}, {}) >>,
     << S(94, "Assign", {"u", "unc"}, {"velocity"}, {}),
        S(95, "Expr", {"velocity"}, {}, {}) >>,
     << S(118, "ImportFrom", {}, {"quantity_support"}, {"astropy"}),
        S(119, "Expr", {"quantity_support"}, {}, {}) >>,
     << S(128, "Expr", {"distance", "hist"}, {}, {}) >>,
     << S(146, "Expr", {"distance"}, {}, {}) >>,
     << S(155, "Expr", {"distance"}, {}, {}) >>,
     << S(164, "Expr", {"distance"}, {}, {}) >>,
     << S(173, "Expr", {"distance"}, {}, {}) >>,
     << S(182, "Expr", {"distance"}, {}, {}) >>,
     << S(191, "Expr", {"distance"}, {}, {}) >>,
     << S(207, "Assign", {"distance", "u"}, {"velocity_fixed_time"}, {}),
        S(208, "Expr", {"velocity_fixed_time"}, {}, {}) >>,
     << S(217, "Expr", {"hist", "velocity_fixed_time"}, {}, {}) >>,
     << S(233, "Assign", {"distance", "velocity"}, {"time"}, {}),
        S(234, "Expr", {"time"}, {}, {}) >>,
     << S(243, "Expr", {"hist", "time"}, {}, {}) >>,
     << S(259, "Import", {}, {"np"}, {"numpy"}),
        S(260, "Assign", {"distance", "np", "velocity"}, {"time"}, {}) >>,
     << S(269, "Expr", {"hist", "time"}, {}, {}) >>,
     << S(317, "Assign", {"u"}, {"period"}, {}),
        S(318, "Assign", {"u"}, {"amplitude"}, {}),
        S(319, "Assign", {"u"}, {"amplitude_err"}, {}) >>,
     << S(329, "ImportFrom", {}, {"G"}, {"astropy"}),
        S(330, "ImportFrom", {}, {"unc"}, {"astropy"}),
        S(331, "ImportFrom", {}, {"hist", "quantity_support"}, {"astropy"}),
        S(332, "Assign", {}, {"N"}, {}),
        S(333, "Assign", {"N", "u", "unc"}, {"mstar"}, {}),
        S(334, "Assign", {"G", "mstar", "np", "period"}, {"r"}, {}),
        S(335, "With", {"hist", "quantity_support", "r", "u"}, {}, {}) >>,
     << S(346, "Assign", {"N", "unc"}, {"cosi"}, {}),
        S(347, "Assign", {"cosi", "np"}, {"sini"}, {}),
        S(348, "Assign", {"N", "amplitude", "amplitude_err", "unc"}, {"vobs"}, {}),
        S(349, "Assign", {"G", "mstar", "np", "r", "sini", "vobs"}, {"mp"}, {}),
        S(350, "Assign", {"hist", "mp", "u"}, {"_"}, {}) >>,
     << S(360, "Expr", {"mp", "u"}, {}, {}) >> >>

\* The cell at lines 361-362 with hdus built by a for loop instead of a
\* list comprehension.
Nb19_HdusCell_Loop ==
  << S(361, "ImportFrom", {}, {"fits"}, {"astropy"}),
     S(362, "Assign", {}, {"hdus"}, {}),
     S(363, "For", {"fits", "hdus", "subtable"}, {"row"}, {}) >>

\* Code cell at lines 361-362 of instructor/19-astroquery_instructor.ipynb.
Nb19_HdusCell ==
  << S(361, "ImportFrom", {}, {"fits"}, {"astropy"}),
     S(362, "Assign", {"fits", "subtable"}, {"hdus"}, {}) >>

\* Code cells of instructor/19-astroquery_instructor.ipynb (one tuple per cell, one S per statement).
Nb19 ==
  << << S(56, "Magic", {}, {}, {}),
        S(57, "Import", {}, {"plt"}, {"matplotlib"}),
        S(58, "Expr", {"plt"}, {}, {}),
        S(59, "Expr", {"plt"}, {}, {}) >>,
     << S(118, "ImportFrom", {}, {"Simbad"}, {"astroquery"}) >>,
     << S(134, "Assign", {"Simbad"}, {"result"}, {}),
        S(135, "Expr", {"result"}, {}, {}) >>,
     << S(151, "Import", {}, {"u"}, {"astropy"}),
        S(152, "ImportFrom", {}, {"SkyCoord"}, {"astropy"}) >>,
     << S(161, "Assign", {"SkyCoord", "u"}, {"c"}, {}),
        S(162, "Assign", {"u"}, {"r"}, {}) >>,
     << S(171, "Assign", {"Simbad", "c", "r"}, {"result"}, {}),
        S(172, "Expr", {"result"}, {}, {}) >>,
     << S(190, "ImportFrom", {}, {"ESASky"}, {"astroquery"}) >>,
     << S(206, "Expr", {"ESASky"}, {}, {}) >>,
     << S(215, "Expr", {"ESASky"}, {}, {}) >>,
     << S(231, "ImportFrom", {}, {"ESASky"}, {"astroquery"}),
        S(232, "Assign", {"ESASky"}, {"result"}, {}),
        S(233, "Expr", {"result"}, {}, {}) >>,
     << S(242, "Assign", {"ESASky", "u"}, {"result"}, {}),
        S(243, "Expr", {"result"}, {}, {}) >>,
     << S(259, "Assign", {"ESASky", "u"}, {"images"}, {}) >>,
     << S(269, "Expr", {"images"}, {}, {}) >>,
     << S(278, "Expr", {"images", "plt"}, {}, {}) >>,
     << S(307, "ImportFrom", {}, {"Irsa"}, {"astroquery"}),
        S(308, "Expr", {"Irsa"}, {}, {}),
        S(309, "Assign", {"Irsa", "u"}, {"table"}, {}),
        S(310, "Expr", {"table"}, {}, {}) >>,
     << S(330, "ImportFrom", {}, {"imagesearch"}, {"pyvo"}) >>,
     << S(339, "Assign", {"SkyCoord"}, {"M17"}, {}),
        S(340, "Assign", {"M17", "imagesearch"}, {"table"}, {}),
        S(342, "Expr", {"table"}, {}, {}) >>,
     << S(351, "Assign", {"table"}, {"subtable"}, {}),
        S(352, "Expr", {"subtable"}, {}, {}) >>,
     Nb19_HdusCell,
     << S(371, "Expr", {"hdus", "plt"}, {}, {}) >> >>

\* Code cells of unnamed/part_002 (one tuple per cell, one S per statement).
NbNddata ==
  << << S(55, "Magic", {}, {}, {}),
        S(56, "Import", {}, {"plt"}, {"matplotlib"}),
        S(57, "Expr", {"plt"}, {}, {}),
        S(58, "Expr", {"plt"}, {}, {}) >>,
     << S(76, "ImportFrom", {}, {"NDData"}, {"astropy"}) >>,
     << S(92, "Import", {}, {"np"}, {"numpy"}),
        S(93, "Assign", {"np"}, {"data"}, {}) >>,
     << S(102, "Assign", {"NDData", "data"}, {"ndd1"}, {}) >>,
     << S(111, "Expr", {"ndd1"}, {}, {}) >>,
     << S(127, "ImportFrom", {}, {"u"}, {"astropy"}),
        S(128, "ImportFrom", {}, {"WCS"}, {"astropy"}),
        S(129, "Assign", {"WCS"}, {"wcs"}, {}),
        S(130, "Assign", {"data"}, {"mask"}, {}) >>,
     << S(139, "Assign", {"NDData", "data", "mask", "u", "wcs"}, {"ndd2"}, {}) >>,
     << S(148, "Expr", {"ndd2"}, {}, {}) >>,
     << S(164, "ImportFrom", {}, {"StdDevUncertainty"}, {"astropy"}),
        S(165, "Assign", {"StdDevUncertainty", "data"}, {"uncertainty"}, {}),
        S(166, "Assign", {"NDData", "data", "uncertainty"}, {"ndd3"}, {}) >>,
     << S(189, "ImportFrom", {}, {"CCDData"}, {"astropy"}) >>,
     << S(205, "Assign", {"CCDData"}, {"ccd"}, {}),
        S(206, "Expr", {"ccd"}, {}, {}) >>,
     << S(215, "Expr", {"ccd", "plt"}, {}, {}),
        S(216, "Expr", {"ccd", "plt"}, {}, {}),
        S(217, "Expr", {"plt"}, {}, {}) >>,
     << S(233, "Assign", {"ccd"}, {"subccd"}, {}) >>,
     << S(242, "Expr", {"plt", "subccd"}, {}, {}),
        S(243, "Expr", {"plt", "subccd"}, {}, {}),
        S(244, "Expr", {"plt"}, {}, {}) >>,
     << S(260, "Assign", {"CCDData", "StdDevUncertainty"}, {"ccd1"}, {}),
        S(262, "Assign", {"CCDData", "StdDevUncertainty"}, {"ccd2"}, {}) >>,
     << S(272, "Assign", {"ccd1", "ccd2"}, {"ccd_sub"}, {}) >>,
     << S(281, "Expr", {"ccd_sub"}, {}, {}) >>,
     << S(290, "Expr", {"ccd_sub"}, {}, {}) >>,
     << S(306, "Expr", {"ccd1"}, {}, {}) >>,
     << S(324, "ImportFrom", {}, {"Cutout2D"}, {"astropy"}) >>,
     << S(340, "ImportFrom", {}, {"SkyCoord"}, {"astropy"}),
        S(341, "Assign", {"SkyCoord", "u"}, {"galcen"}, {}) >>,
     << S(350, "Assign", {"Cutout2D", "ccd", "galcen", "u"}, {"cutout"}, {}) >>,
     << S(359, "Expr", {"cutout", "plt"}, {}, {}),
        S(360, "Expr", {"cutout", "plt"}, {}, {}) >>,
     << S(376, "Expr", {"cutout", "plt"}, {}, {}),
        S(377, "Expr", {"ccd", "plt"}, {}, {}),
        S(378, "Expr", {"cutout"}, {}, {}) >>,
     << S(394, "Expr", {"cutout"}, {}, {}) >>,
     << S(412, "ImportFrom", {}, {"block_reduce", "block_replicate"}, {"astropy"}) >>,
     << S(421, "Expr", {"block_reduce", "ccd", "plt"}, {}, {}) >>,
     << S(430, "Expr", {"block_replicate", "ccd", "plt"}, {}, {}) >> >>

Notebooks == {"08-wcsaxes", "14-photometry", "15-healpix", "17-timeseries",
              "18-distributions", "19-astroquery", "nddata"}

Cells(n) ==
  CASE n = "08-wcsaxes"       -> Nb08
    [] n = "14-photometry"    -> Nb14
    [] n = "15-healpix"       -> Nb15
    [] n = "17-timeseries"    -> Nb17
    [] n = "18-distributions" -> Nb18
    [] n = "19-astroquery"    -> Nb19
    [] n = "nddata"           -> NbNddata

\* Names every fresh kernel has (the Python builtins the cells call).
Builtins == {"print", "list", "zip"}

\* Outcome of executing the statements stmts[i..] of one cell in order,
\* starting from namespace n0 with the modules avail importable: the first
\* statement that imports a missing module or reads an unbound name raises
\* and the rest of the cell is skipped.
RECURSIVE ExecStmts(_, _, _, _)
ExecStmts(stmts, i, n0, avail) ==
  IF i > Len(stmts) THEN [ns |-> n0, err |-> "", line |-> 0]
  ELSE LET s == stmts[i] IN
       IF ~(s.mods \subseteq avail)
         THEN [ns |-> n0, err |-> "ModuleNotFoundError", line |-> s.line]
       ELSE IF ~(s.uses \subseteq n0)
         THEN [ns |-> n0, err |-> "NameError", line |-> s.line]
       ELSE ExecStmts(stmts, i + 1, n0 \cup s.binds, avail)

\* ---------------------------------------------------------------------------
\* Shell session: following one installation option of the README
\* ---------------------------------------------------------------------------

Commands(o) ==
  CASE o = "opt3" -> Option3
    [] o = "opt4" -> Option4
    [] OTHER      -> << >>

\* `conda create -n <name> -f environment.yml`
CondaCreate ==
  /\ option = "opt1" /\ step = 0
  /\ envs' = envs \cup {Option1[readme].create}
  /\ step' = 1
  /\ UNCHANGED <<readme, option, condaNew, active, installed, shellErr>>
  /\ UNCHANGED <<kernelVars, challengeVars>>

\* `conda activate <name>`: fails when conda is too old to know the command
\* or when no environment has that name.
CondaActivate ==
  /\ option = "opt1" /\ step = 1
  /\ IF condaNew /\ Option1[readme].activate \in envs
       THEN /\ active' = Option1[readme].activate
            /\ shellErr' = FALSE
            /\ step' = 3
       ELSE /\ shellErr' = TRUE
            /\ step' = 2
            /\ UNCHANGED active
  /\ UNCHANGED <<readme, option, condaNew, envs, installed>>
  /\ UNCHANGED <<kernelVars, challengeVars>>

\* "(if this doesn't work, try ``source activate <name>``)"
SourceActivate ==
  /\ option = "opt1" /\ step = 2 /\ shellErr
  /\ IF Option1[readme].fallback \in envs
       THEN /\ active' = Option1[readme].fallback
            /\ shellErr' = FALSE
       ELSE UNCHANGED <<active, shellErr>>
  /\ step' = 3
  /\ UNCHANGED <<readme, option, condaNew, envs, installed>>
  /\ UNCHANGED <<kernelVars, challengeVars>>

\* `conda install [-c astropy] <requirements>`
CondaInstall ==
  /\ step < Len(Commands(option))
  /\ Commands(option)[step + 1].tool = "conda"
  /\ installed' = installed \cup Normalise(Commands(option)[step + 1].reqs)
  /\ step' = step + 1
  /\ UNCHANGED <<readme, option, condaNew, envs, active, shellErr>>
  /\ UNCHANGED <<kernelVars, challengeVars>>

\* `pip install <requirements>`
PipInstall ==
  /\ step < Len(Commands(option))
  /\ Commands(option)[step + 1].tool = "pip"
  /\ installed' = installed \cup Normalise(Commands(option)[step + 1].reqs)
  /\ step' = step + 1
  /\ UNCHANGED <<readme, option, condaNew, envs, active, shellErr>>
  /\ UNCHANGED <<kernelVars, challengeVars>>

\* The participant already has, or installs by other means, exactly the
\* software of the "you will need the following software installed" list.
InstallRequired ==
  /\ option = "list" /\ step = 0
  /\ installed' = installed \cup Normalise(Required)
  /\ step' = 1
  /\ UNCHANGED <<readme, option, condaNew, envs, active, shellErr>>
  /\ UNCHANGED <<kernelVars, challengeVars>>

InstallDone ==
  \/ option = "list" /\ step = 1
  \/ option \in {"opt3", "opt4"} /\ step = Len(Commands(option))

Option1Done == option = "opt1" /\ step = 3

\* `jupyter notebook`, then opening one notebook: a fresh kernel.
LaunchNotebook(n) ==
  /\ InstallDone /\ nb = ""
  /\ "notebook" \in Modules(installed)
  /\ nb' = n
  /\ pc' = 1
  /\ ns' = Builtins
  /\ err' = ""
  /\ errLine' = 0
  /\ UNCHANGED <<shellVars, challengeVars>>

\* Cell > Run All, one cell at a time from the top; the first cell that
\* raises stops the run.
RunNextCell ==
  /\ nb # "" /\ err = ""
  /\ pc <= Len(Cells(nb))
  /\ LET out == ExecStmts(Cells(nb)[pc], 1, ns, Modules(installed)) IN
       /\ ns' = out.ns
       /\ err' = out.err
       /\ errLine' = out.line
       /\ pc' = IF out.err = "" THEN pc + 1 ELSE pc
  /\ UNCHANGED <<nb>>
  /\ UNCHANGED <<shellVars, challengeVars>>

\* A name that holds a fraction and is not bound yet.
Unbound == [num |-> 0, den |-> 0]

\* An array passed to a call: the expression written and its pixels.
Arg(name, data) == [name |-> name, data |-> data]

\* No cell of the photometry notebook has run.
PhotIdle ==
  /\ photStage = "idle"
  /\ image = << >>
  /\ bkgCall = Arg("", << >>)
  /\ bkg = << >>
  /\ star_image_nobkg = << >>
  /\ statsArg = Arg("", << >>)
  /\ std = 0
  /\ threshold = 0
  /\ detectArg = Arg("", << >>)
  /\ apCalls = {}
  /\ sources = << >>
  /\ sum5 = << >>
  /\ sum10 = << >>
  /\ subtable = << >>

\* No cell of the Nobel Challenge (Part 1) has run.
RvIdle ==
  /\ fileRows = << >>
  /\ readCall = [path |-> "", kw |-> {}]
  /\ ts_51peg = << >>
  /\ runs3 = 0
  /\ frequency = << >>
  /\ power = << >>
  /\ period = Unbound
  /\ foldPeriod = Unbound

\* No cell of the Nobel Challenge (Part 3) has run.
DistIdle ==
  /\ carried = FALSE
  /\ mstar = << >>
  /\ r = << >>
  /\ rPlot = ""
  /\ pc18 = 1
  /\ ns18 = Builtins
  /\ errCells = {}
  /\ carriedVals = [x \in {} |-> 0]
  /\ nsamples = [x \in {} |-> 0]
  /\ cosi = << >>
  /\ sini = << >>
  /\ vobsArgs = [x \in {} |-> 0]
  /\ vobs = << >>
  /\ mp = << >>
  /\ mpPlot = ""
  /\ pct = << >>

\* The shell session and the Run All kernel are not in use.
CoreIdle ==
  /\ readme = "README.md"
  /\ option = "list"
  /\ condaNew = TRUE
  /\ step = 0
  /\ envs = {"base"}
  /\ active = "base"
  /\ installed = {}
  /\ shellErr = FALSE
  /\ nb = ""
  /\ pc = 0
  /\ ns = {}
  /\ err = ""
  /\ errLine = 0

Init ==
  /\ PhotIdle /\ RvIdle /\ DistIdle
  /\ readme \in Readmes
  /\ option \in {"list", "opt1", "opt3", "opt4"}
  /\ condaNew \in BOOLEAN
  /\ step = 0
  /\ envs = {"base"}
  /\ active = "base"
  /\ installed = {Req("python", ">=3.5")}
  /\ shellErr = FALSE
  /\ nb = ""
  /\ pc = 0
  /\ ns = {}
  /\ err = ""
  /\ errLine = 0

Next ==
  \/ CondaCreate
  \/ CondaActivate
  \/ SourceActivate
  \/ CondaInstall
  \/ PipInstall
  \/ InstallRequired
  \/ \E n \in Notebooks : LaunchNotebook(n)
  \/ RunNextCell

Spec == Init /\ [][Next]_vars

\* ---------------------------------------------------------------------------
\* Properties of the installation procedures and of Run All
\* ---------------------------------------------------------------------------

RunAllDone == nb # "" /\ err = "" /\ pc = Len(Cells(nb)) + 1

\* C1: Run All of the distributions notebook in a fresh kernel never stops
\* on an unbound name (no cell raises NameError).
C1_Distributions_NoNameError ==
  nb = "18-distributions" => err # "NameError"

\* C2: Run All of each of the notebooks 08, 14, 15, 17, 19 and nddata in a
\* fresh kernel never stops on an unbound name: every name a cell reads was
\* bound by that cell or an earlier one of the same notebook.
C2_Others_NoNameError ==
  (nb \in Notebooks \ {"18-distributions"}) => err # "NameError"

\* Run All of the healpix notebook went past the cells that use SkyCoord, u
\* and np and reached the end.
C2_Witness ==
  nb = "15-healpix" /\ RunAllDone /\ {"SkyCoord", "u", "np"} \subseteq ns

\* C3: in every README variant, once Option 1 has been followed to its end
\* the active environment is the one `conda create` made, and the fallback
\* names that environment too.
C3_Option1_ActivatesCreated ==
  Option1Done =>
    /\ active = Option1[readme].create
    /\ Option1[readme].fallback = Option1[readme].create

\* C4: after all commands of Option 3, and after all commands of Option 4,
\* every item of the required list other than Python is installed, Astropy
\* with the constraint >=3.2.
C4_ManualInstallsCoverRequired ==
  (option \in {"opt3", "opt4"} /\ InstallDone) =>
    \A q \in Required :
      q.name # "Python" => Req(Canon(q.name), q.spec) \in installed

C4_Witness ==
  /\ option = "opt4" /\ InstallDone
  /\ Req("astropy", ">=3.2") \in installed

\* C5: with exactly the software of the required list installed, no import
\* of any code cell of any notebook fails for a missing module: every
\* top-level module a cell of the open notebook imports, run or not yet run,
\* is provided by an installed list item.
C5_RequiredListSuffices ==
  option = "list" =>
    /\ err # "ModuleNotFoundError"
    /\ nb # "" =>
         \A c \in 1..Len(Cells(nb)) : \A i \in 1..Len(Cells(nb)[c]) :
           Cells(nb)[c][i].mods \subseteq Modules(installed)

C5_Witness ==
  option = "list" /\ nb = "19-astroquery" /\ RunAllDone

\* Statement kinds that define functions or classes, loop, branch or handle
\* exceptions.
ControlKinds ==
  {"FunctionDef", "AsyncFunctionDef", "ClassDef", "For", "AsyncFor", "While",
   "If", "Try", "Match"}

\* Statement kinds of straight-line cells: IPython magics, imports,
\* assignments, expression statements (displays and calls) and the `with`
\* block around one call.
StraightKinds ==
  {"Magic", "Import", "ImportFrom", "Assign", "AugAssign", "Expr", "With"}

\* Names bound by the statements of cells 1..k of notebook n.
RECURSIVE BoundUpTo(_, _)
BoundUpTo(n, k) ==
  IF k = 0 THEN {}
  ELSE BoundUpTo(n, k - 1) \cup
       UNION { Cells(n)[k][i].binds : i \in 1..Len(Cells(n)[k]) }

\* C9: no statement of any code cell of the open notebook defines a function
\* or class, loops, branches or handles exceptions; every statement is an
\* import, an assignment, an expression or a with block; and the kernel
\* state between cells is exactly the names bound by the cells run so far.
C9_StraightLineCells ==
  nb # "" =>
    /\ \A c \in 1..Len(Cells(nb)) : \A i \in 1..Len(Cells(nb)[c]) :
         /\ Cells(nb)[c][i].kind \notin ControlKinds
         /\ Cells(nb)[c][i].kind \in StraightKinds
    /\ err = "" => ns = Builtins \cup BoundUpTo(nb, pc - 1)

C9_Witness ==
  nb = "19-astroquery" /\ RunAllDone /\ "hdus" \in ns

\* ---------------------------------------------------------------------------
\* Photometry notebook: from the image to the challenge cells #1 and #2
\* ---------------------------------------------------------------------------

\* Largest number of rows DAOStarFinder returns in the model.
MaxSources == 2

\* Aperture sums the library may return for one source (background-subtracted
\* counts: negative, zero and positive values, with exact ratios 1/2 and 2).
SumVals == {-2, -1, 0, 1, 2, 3, 4}

\* Elementwise true division of two float columns: the quotient kept as the
\* pair it came from (a zero denominator gives +inf, -inf or nan).
Frac(a, b) == [num |-> a, den |-> b]

\* q < kn/kd the way numpy compares floats: -inf is below everything, +inf and
\* nan are below nothing.
FracLt(q, kn, kd) ==
  IF q.den = 0 THEN q.num < 0
  ELSE IF q.den > 0 THEN q.num * kd < kn * q.den
  ELSE q.num * kd > kn * q.den

\* q > kn/kd the way numpy compares floats.
FracGt(q, kn, kd) ==
  IF q.den = 0 THEN q.num > 0
  ELSE IF q.den > 0 THEN q.num * kd > kn * q.den
  ELSE q.num * kd < kn * q.den

\* agree with only the upper limit tested.
Agree_UpperOnly(q) == FracLt(q, 2, 1)

\* agree = (frac < 2) & (frac > 0.5), for one row
Agree(q) == FracLt(q, 2, 1) /\ FracGt(q, 1, 2)

\* table[mask]: the rows whose mask entry is true, in table order.
RECURSIVE MaskRows(_, _, _)
MaskRows(rows, mask, i) ==
  IF i > Len(rows) THEN << >>
  ELSE (IF mask[i] THEN << rows[i] >> ELSE << >>) \o MaskRows(rows, mask, i + 1)

\* Images load_star_image may return, as the counts of two pixels.
Images == { <<50, 80>>, <<60, 60>> }

\* Background maps Background2D may estimate for such an image.
Backgrounds == { <<10, 10>>, <<20, 30>> }

\* Values sigma_clipped_stats may return as std.
StdVals == {1, 2}

\* star_image = load_star_image()
LoadStarImage ==
  /\ photStage = "idle"
  /\ image' \in Images
  /\ photStage' = "loaded"
  /\ UNCHANGED <<bkgCall, bkg, star_image_nobkg, statsArg, std, threshold,
                 detectArg, apCalls>>
  /\ UNCHANGED <<sources, sum5, sum10, subtable>>
  /\ UNCHANGED <<shellVars, kernelVars, rvVars, distVars>>

\* bkg = Background2D(star_image.data, (265, 265), sigma_clip=sigma_clip,
\* bkg_estimator=bkg_estimator)
EstimateBackground ==
  /\ photStage = "loaded"
  /\ bkgCall' = Arg("star_image.data", image)
  /\ bkg' \in Backgrounds
  /\ photStage' = "background"
  /\ UNCHANGED <<image, star_image_nobkg, statsArg, std, threshold,
                 detectArg, apCalls>>
  /\ UNCHANGED <<sources, sum5, sum10, subtable>>
  /\ UNCHANGED <<shellVars, kernelVars, rvVars, distVars>>

\* star_image_nobkg = star_image.data - bkg.background
SubtractBackground ==
  /\ photStage = "background"
  /\ star_image_nobkg' = [i \in 1..Len(image) |-> image[i] - bkg[i]]
  /\ photStage' = "subtracted"
  /\ UNCHANGED <<image, bkgCall, bkg, statsArg, std, threshold,
                 detectArg, apCalls>>
  /\ UNCHANGED <<sources, sum5, sum10, subtable>>
  /\ UNCHANGED <<shellVars, kernelVars, rvVars, distVars>>

\* mean, median, std = sigma_clipped_stats(star_image_nobkg, sigma=3.0)
EstimateNoise ==
  /\ photStage = "subtracted"
  /\ statsArg' = Arg("star_image_nobkg", star_image_nobkg)
  /\ std' \in StdVals
  /\ photStage' = "noise"
  /\ UNCHANGED <<image, bkgCall, bkg, star_image_nobkg, threshold,
                 detectArg, apCalls>>
  /\ UNCHANGED <<sources, sum5, sum10, subtable>>
  /\ UNCHANGED <<shellVars, kernelVars, rvVars, distVars>>

\* The source finder run on the image as loaded.
DetectInput_Raw == Arg("star_image.data", image)

\* The array of daofind(star_image_nobkg).
DetectInput == Arg("star_image_nobkg", star_image_nobkg)

\* daofind = DAOStarFinder(fwhm=5.0, threshold=10.*std);
\* sources = daofind(star_image_nobkg): a table of n rows.
DetectSources ==
  /\ photStage = "noise"
  /\ threshold' = 10 * std
  /\ detectArg' = DetectInput
  /\ \E n \in 1..MaxSources : sources' = [i \in 1..n |-> i]
  /\ photStage' = "detected"
  /\ UNCHANGED <<image, bkgCall, bkg, star_image_nobkg, statsArg, std, apCalls>>
  /\ UNCHANGED <<sum5, sum10, subtable>>
  /\ UNCHANGED <<shellVars, kernelVars, rvVars, distVars>>

\* aperture_photometry(star_image_nobkg, <CircularAperture(..., r=rad)>)
ApCall(rad) == [r |-> rad, image |-> Arg("star_image_nobkg", star_image_nobkg)]

\* apertures = CircularAperture(..., r=3.);
\* apphot_table = aperture_photometry(star_image_nobkg, apertures)
AperturePhotometry ==
  /\ photStage = "detected"
  /\ apCalls' = apCalls \cup {ApCall(3)}
  /\ photStage' = "apphot"
  /\ UNCHANGED <<image, bkgCall, bkg, star_image_nobkg, statsArg, std,
                 threshold, detectArg>>
  /\ UNCHANGED <<sources, sum5, sum10, subtable>>
  /\ UNCHANGED <<shellVars, kernelVars, rvVars, distVars>>

\* Challenge cell #1: aperture photometry with r=5 and r=10 on every source.
ChallengeCell1 ==
  /\ photStage = "apphot"
  /\ sum5' \in [1..Len(sources) -> SumVals]
  /\ sum10' \in [1..Len(sources) -> SumVals]
  /\ apCalls' = apCalls \cup {ApCall(5), ApCall(10)}
  /\ photStage' = "measured"
  /\ UNCHANGED <<image, bkgCall, bkg, star_image_nobkg, statsArg, std,
                 threshold, detectArg>>
  /\ UNCHANGED <<sources, subtable>>
  /\ UNCHANGED <<shellVars, kernelVars, rvVars, distVars>>

\* Challenge cell #2: frac, agree, subtable = sources[agree].
ChallengeCell2 ==
  /\ photStage = "measured"
  /\ LET frac == [i \in 1..Len(sources) |-> Frac(sum5[i], sum10[i])]
         agree == [i \in 1..Len(sources) |-> Agree(frac[i])]
     IN subtable' = MaskRows(sources, agree, 1)
  /\ photStage' = "selected"
  /\ UNCHANGED <<sources, sum5, sum10, pipeVars>>
  /\ UNCHANGED <<shellVars, kernelVars, rvVars, distVars>>

InitPhot == CoreIdle /\ PhotIdle /\ RvIdle /\ DistIdle

NextPhot ==
  \/ LoadStarImage
  \/ EstimateBackground
  \/ SubtractBackground
  \/ EstimateNoise
  \/ DetectSources
  \/ AperturePhotometry
  \/ ChallengeCell1
  \/ ChallengeCell2

SpecPhot == InitPhot /\ [][NextPhot]_vars

\* Row ids held by a table.
RowSet(t) == { t[i] : i \in 1..Len(t) }

\* a/b lies in the closed interval [1/2, 2].
RatioWithinClosed(a, b) ==
  \/ b > 0 /\ b <= 2 * a /\ a <= 2 * b
  \/ b < 0 /\ b >= 2 * a /\ a >= 2 * b

\* a/b lies in the open interval (1/2, 2).
RatioWithinOpen(a, b) ==
  \/ b > 0 /\ b < 2 * a /\ a < 2 * b
  \/ b < 0 /\ b > 2 * a /\ a > 2 * b

\* C7 as stated: subtable holds exactly the rows of sources whose ratio
\* aperture_sum(r=5)/aperture_sum(r=10) lies between 1/2 and 2, both bounds
\* included.
C7_SubtableClosedBounds ==
  photStage = "selected" =>
    RowSet(subtable) = { i \in RowSet(sources) : RatioWithinClosed(sum5[i], sum10[i]) }

\* C7 amended: subtable holds exactly the rows of sources whose ratio lies
\* strictly between 1/2 and 2 (both bounds excluded), in table order.
C7_SubtableOpenBounds ==
  photStage = "selected" =>
    /\ RowSet(subtable) = { i \in RowSet(sources) : RatioWithinOpen(sum5[i], sum10[i]) }
    /\ \A j \in 1..Len(subtable), k \in 1..Len(subtable) :
         j < k => subtable[j] < subtable[k]

\* A selection that kept one row and dropped another whose ratio is exactly 2.
C7_Witness ==
  /\ photStage = "selected"
  /\ Len(sources) = 2
  /\ sum5[1] = 3 /\ sum10[1] = 2
  /\ sum5[2] = 4 /\ sum10[2] = 2
  /\ subtable = << 1 >>

\* C16: the stages run in the order background estimation, background
\* subtraction, noise estimation, source detection, aperture photometry, each
\* consuming the output of the one before: the background is estimated from
\* star_image.data, star_image_nobkg is the image minus that background, std
\* is measured on star_image_nobkg, the detection threshold is 10 times std,
\* and daofind and every aperture_photometry call (r = 3, 5, 10) are given
\* star_image_nobkg, never the raw star_image.data.
C16_PipelineOrder ==
  /\ bkg # << >> => bkgCall = Arg("star_image.data", image)
  /\ star_image_nobkg # << >> =>
       /\ bkg # << >>
       /\ Len(star_image_nobkg) = Len(image)
       /\ \A i \in 1..Len(image) : star_image_nobkg[i] = image[i] - bkg[i]
  /\ std # 0 =>
       /\ star_image_nobkg # << >>
       /\ statsArg = Arg("star_image_nobkg", star_image_nobkg)
  /\ sources # << >> =>
       /\ std # 0
       /\ threshold = 10 * std
       /\ detectArg.name = "star_image_nobkg"
       /\ detectArg.data = star_image_nobkg
       /\ detectArg.data # image
  /\ \A c \in apCalls :
       /\ sources # << >>
       /\ c.r \in {3, 5, 10}
       /\ c.image.name = "star_image_nobkg"
       /\ c.image.data = star_image_nobkg
       /\ c.image.data # image
  /\ photStage \in {"measured", "selected"} =>
       { c.r : c \in apCalls } = {3, 5, 10}

\* The whole notebook has run on the image <<50, 80>> with background
\* <<10, 10>> and std 2: the threshold is 20 and the three aperture
\* photometry calls were given <<40, 70>>.
C16_Witness ==
  /\ photStage = "selected"
  /\ image = <<50, 80>> /\ star_image_nobkg = <<40, 70>>
  /\ std = 2 /\ threshold = 20
  /\ detectArg.data = <<40, 70>>
  /\ { c.r : c \in apCalls } = {3, 5, 10}
  /\ \A c \in apCalls : c.image.data = <<40, 70>>

\* ---------------------------------------------------------------------------
\* Timeseries notebook: Nobel Challenge (Part 1), steps 1 and 3 to 5
\* ---------------------------------------------------------------------------

\* Number of rows of the radial-velocity table in the model.
MaxRows == 2

\* Executions of the step 3 cell allowed after one read.
MaxRuns == 2

\* Largest number of grid frequencies the periodogram of step 4 returns.
MaxGrid == 2

\* The values of the Set column, character by character: always 6 characters,
\* padded with trailing spaces.
Lick13 == << "L", "i", "c", "k", "1", "3" >>
Lick8  == << "L", "i", "c", "k", "8", " " >>
Lick6  == << "L", "i", "c", "k", "6", " " >>
ELODIE == << "E", "L", "O", "D", "I", "E" >>
HIRES  == << "H", "I", "R", "E", "S", " " >>
HARPS  == << "H", "A", "R", "P", "S", " " >>

SetValues == {Lick13, Lick8, Lick6, ELODIE, HIRES, HARPS}

\* Raw radial velocities in cm/s: the two values the sets cluster around.
RVVals == {0, -3320000}

\* The file the challenge text says holds the table.
ChallengeFile == "data/birkby2017.fits"

\* Step 3 with the Lick6 line comparing against 'Lick8 ' a second time.
ZeroPoints_Duplicate ==
  << [label |-> Lick13, delta |-> -2170],
     [label |-> Lick8,  delta |-> -452],
     [label |-> Lick8,  delta |-> -1464],
     [label |-> ELODIE, delta |-> 3325159],
     [label |-> HIRES,  delta |-> 224],
     [label |-> HARPS,  delta |-> 3315254] >>

\* The six statements of step 3, in order: the label the Set column is
\* compared against and the offset added to RV, in cm/s.
ZeroPoints ==
  << [label |-> Lick13, delta |-> -2170],
     [label |-> Lick8,  delta |-> -452],
     [label |-> Lick6,  delta |-> -1464],
     [label |-> ELODIE, delta |-> 3325159],
     [label |-> HIRES,  delta |-> 224],
     [label |-> HARPS,  delta |-> 3315254] >>

\* The masked update written as a plain assignment: RV becomes the offset.
ApplyOffset_Assign(rows, z) ==
  [i \in 1..Len(rows) |->
     IF rows[i].Set = z.label
       THEN [rows[i] EXCEPT !.RV = z.delta]
       ELSE rows[i]]

\* ts['RV'][ts['Set'] == label] += delta, in place.
ApplyOffset(rows, z) ==
  [i \in 1..Len(rows) |->
     IF rows[i].Set = z.label
       THEN [rows[i] EXCEPT !.RV = rows[i].RV + z.delta]
       ELSE rows[i]]

\* The statements k.. of step 3 applied one after the other.
RECURSIVE ApplyZeroPoints(_, _)
ApplyZeroPoints(rows, k) ==
  IF k > Len(ZeroPoints) THEN rows
  ELSE ApplyZeroPoints(ApplyOffset(rows, ZeroPoints[k]), k + 1)

\* Cell #1: ts_51peg = TimeSeries.read('data/51peg.fits', time_column='BJD',
\* time_format='jd', time_scale='tdb')
Step1_Read ==
  /\ fileRows # << >>
  /\ readCall' = [path |-> "data/51peg.fits",
                  kw |-> {"time_column", "time_format", "time_scale"}]
  /\ ts_51peg' = fileRows
  /\ runs3' = 0
  /\ UNCHANGED <<fileRows, frequency, power, period, foldPeriod>>
  /\ UNCHANGED <<shellVars, kernelVars, photVars, distVars>>

\* Cell #3: the six zero-point corrections (the plot changes no state).
Step3_ZeroPoint ==
  /\ ts_51peg # << >>
  /\ runs3 < MaxRuns
  /\ ts_51peg' = ApplyZeroPoints(ts_51peg, 1)
  /\ runs3' = runs3 + 1
  /\ UNCHANGED <<fileRows, readCall, frequency, power, period, foldPeriod>>
  /\ UNCHANGED <<shellVars, kernelVars, photVars, distVars>>

\* minimum_frequency=0.2 / u.day and maximum_frequency=0.3 / u.day, in
\* thousandths per day.
MinFrequency == 200
MaxFrequency == 300

\* Levels of the periodogram power.
PowerVals == {0, 1}

\* The frequency grid autopower returns for n grid points: evenly spaced from
\* minimum_frequency, up to maximum_frequency.
Grid(n) ==
  [k \in 1..n |->
     IF n = 1 THEN MinFrequency
     ELSE MinFrequency + ((k - 1) * (MaxFrequency - MinFrequency)) \div (n - 1)]

\* The index of the smallest value of p.
ArgMin(p) ==
  CHOOSE i \in 1..Len(p) :
    /\ \A j \in 1..Len(p) : p[j] >= p[i]
    /\ \A j \in 1..(i - 1) : p[j] > p[i]

\* np.argmax(p): the index of the largest value, the first one on ties.
ArgMax(p) ==
  CHOOSE i \in 1..Len(p) :
    /\ \A j \in 1..Len(p) : p[j] <= p[i]
    /\ \A j \in 1..(i - 1) : p[j] < p[i]

\* 1 / f for f in thousandths per day: a number of days, as a fraction.
Reciprocal(f) == [num |-> 1000, den |-> f]

\* Cell #4: ls = LombScargle.from_timeseries(ts_51peg, 'RV'); frequency, power
\* = ls.autopower(...); period = 1 / frequency[np.argmax(power)].
Step4_Periodogram ==
  /\ ts_51peg # << >>
  /\ \E n \in 1..MaxGrid :
       \E p \in [1..n -> PowerVals] :
         /\ frequency' = Grid(n)
         /\ power' = p
         /\ period' = Reciprocal(Grid(n)[ArgMax(p)])
  /\ UNCHANGED <<fileRows, readCall, ts_51peg, runs3, foldPeriod>>
  /\ UNCHANGED <<shellVars, kernelVars, photVars, distVars>>

\* Cell #5: ts_51peg_folded = ts_51peg.fold(period=period).
Step5_Fold ==
  /\ ts_51peg # << >>
  /\ period # Unbound
  /\ foldPeriod' = period
  /\ UNCHANGED <<fileRows, readCall, ts_51peg, runs3, frequency, power, period>>
  /\ UNCHANGED <<shellVars, kernelVars, photVars, distVars>>

InitRV ==
  /\ CoreIdle /\ PhotIdle /\ DistIdle
  /\ fileRows \in [1..MaxRows -> [Set : SetValues, RV : RVVals]]
  /\ readCall = [path |-> "", kw |-> {}]
  /\ ts_51peg = << >>
  /\ runs3 = 0
  /\ frequency = << >>
  /\ power = << >>
  /\ period = Unbound
  /\ foldPeriod = Unbound

NextRV ==
  \/ Step1_Read
  \/ Step3_ZeroPoint
  \/ Step4_Periodogram
  \/ Step5_Fold

SpecRV == InitRV /\ [][NextRV]_vars

\* C8: step 1 reads the table from the file the challenge text names,
\* data/birkby2017.fits, and passes the time column and the time format.
C8_ReadsChallengeFile ==
  ts_51peg # << >> =>
    /\ readCall.path = ChallengeFile
    /\ {"time_column", "time_format"} \subseteq readCall.kw

\* Statements of step 3 whose label equals the Set value s.
Matching(s) == { k \in 1..Len(ZeroPoints) : ZeroPoints[k].label = s }

\* Sum of the offsets of the statements in K.
RECURSIVE SumDelta(_)
SumDelta(K) ==
  IF K = {} THEN 0
  ELSE LET k == CHOOSE x \in K : TRUE
       IN ZeroPoints[k].delta + SumDelta(K \ {k})

\* C10: every label of step 3 is exactly 6 characters long, the six labels
\* are pairwise distinct, every row of ts_51peg is selected by at most one of
\* the six masks, and each execution of the cell moves the row's RV by the
\* offset of that one label (or leaves it alone).
C10_LabelsSelectAtMostOnce ==
  ts_51peg # << >> =>
    /\ \A k \in 1..Len(ZeroPoints) : Len(ZeroPoints[k].label) = 6
    /\ \A j \in 1..Len(ZeroPoints), k \in 1..Len(ZeroPoints) :
         j # k => ZeroPoints[j].label # ZeroPoints[k].label
    /\ \A i \in 1..Len(ts_51peg) :
         /\ Cardinality(Matching(ts_51peg[i].Set)) <= 1
         /\ \E d \in {0} \cup { ZeroPoints[k].delta : k \in 1..Len(ZeroPoints) } :
              ts_51peg[i].RV = fileRows[i].RV + runs3 * d

\* Step 3 has run once on a table with a HIRES row and a Lick8 row, each moved
\* by its own offset.
C10_Witness ==
  /\ runs3 = 1
  /\ ts_51peg[1].Set = HIRES /\ ts_51peg[1].RV = fileRows[1].RV + 224
  /\ ts_51peg[2].Set = Lick8 /\ ts_51peg[2].RV = fileRows[2].RV - 452

\* C11 as stated: executing cell #3 again on the same ts_51peg leaves the RV
\* column as it was after the first execution (the cell is idempotent).
C11_Step3Idempotent ==
  runs3 >= 1 => ts_51peg = ApplyZeroPoints(fileRows, 1)

\* C11: the corrections of cell #3 are augmented assignments, so each execution
\* of the cell on the same ts_51peg moves every selected row by its offset once
\* more (after n executions RV is the file's value plus n times the offset, and
\* a second execution does not leave RV as the first left it); the Set column
\* is never changed, and re-running step 1 puts RV back to the file's values.
C11_Step3Accumulates ==
  ts_51peg # << >> =>
    /\ Len(ts_51peg) = Len(fileRows)
    /\ \A i \in 1..Len(ts_51peg) :
         /\ ts_51peg[i].Set = fileRows[i].Set
         /\ ts_51peg[i].RV =
              fileRows[i].RV + runs3 * SumDelta(Matching(fileRows[i].Set))
    /\ runs3 = 0 => ts_51peg = fileRows
    /\ (runs3 >= 2 /\ \E i \in 1..Len(fileRows) : Matching(fileRows[i].Set) # {})
         => ts_51peg # ApplyZeroPoints(fileRows, 1)

\* Cell #3 has run twice on a table with a HIRES row: the row has moved by
\* twice 2.24 m/s.
C11_Witness ==
  /\ runs3 = 2
  /\ ts_51peg[1].Set = HIRES
  /\ ts_51peg[1].RV = fileRows[1].RV + 448
  /\ ts_51peg # ApplyZeroPoints(fileRows, 1)

\* The state part of C12: period is bound to the reciprocal of a grid frequency
\* whose power no other grid frequency exceeds, every grid frequency lies in
\* 0.2/day .. 0.3/day, and so 10/3 day <= period <= 5 day.
PeriodAtMaxPower ==
  period # Unbound =>
    /\ \E i \in 1..Len(frequency) :
         /\ period.den > 0
         /\ period.num * frequency[i] = 1000 * period.den
         /\ \A j \in 1..Len(power) : power[j] <= power[i]
    /\ Len(power) = Len(frequency)
    /\ \A k \in 1..Len(frequency) :
         MinFrequency <= frequency[k] /\ frequency[k] <= MaxFrequency
    /\ 10 * period.den <= 3 * period.num
    /\ period.num <= 5 * period.den

\* The step part of C12: whenever fold is called, the period it is given is
\* the value of `period` that step 4 left in the kernel.
FoldUsesPeriod ==
  foldPeriod' # foldPeriod => (period # Unbound /\ foldPeriod' = period)

MaxSamples == 2

\* Stellar masses a sample may take, in hundredths of a solar mass: uniform
\* between 1.0 and 1.2.
MassVals == {100, 105, 110, 115, 120}

\* Cosines of the inclination a sample may take, in thousandths: uniform
\* between -1 and +1.
CosVals == {-1000, 0, 600}

\* Distance of a sample of vobs from the mean, in standard deviations.
SigmaVals == {-1, 1}

\* The quantities an expression of cells #8 and #9 is built from.
Symbols == {"G", "mstar", "period", "pi", "four", "vobs", "sini"}

\* A product of powers of the symbols, as the exponent of each symbol counted
\* in sixths (so that cube and square roots stay exact).
Q(s) == [t \in Symbols |-> IF t = s THEN 6 ELSE 0]

\* a * b
QMul(a, b) == [t \in Symbols |-> a[t] + b[t]]

\* a / b
QDiv(a, b) == [t \in Symbols |-> a[t] - b[t]]

\* a ** (n/d)
QPow(a, n, d) == [t \in Symbols |-> (a[t] * n) \div d]

\* Physical dimension of an expression, exponents of length, mass and time in
\* sixths: G is m3 kg-1 s-2, mstar a mass, period a time, vobs a velocity;
\* sini and the numbers have no dimension.
Dim(a) ==
  [L |-> 3 * a["G"] + a["vobs"],
   M |-> a["mstar"] - a["G"],
   T |-> a["period"] - 2 * a["G"] - a["vobs"]]

\* x.to(u.au): converts a length, raises for anything else.
ToAu(a) ==
  IF Dim(a) = [L |-> 6, M |-> 0, T |-> 0] THEN "ok" ELSE "UnitConversionError"

\* x.to(u.M_jup): converts a mass, raises for anything else.
ToMjup(a) ==
  IF Dim(a) = [L |-> 0, M |-> 6, T |-> 0] THEN "ok" ELSE "UnitConversionError"

\* r as the challenge text prints it: (G M P / (4 pi^2)) ^ (1/3).
RadiusText ==
  QPow(QDiv(QMul(QMul(Q("G"), Q("mstar")), Q("period")),
            QMul(Q("four"), QPow(Q("pi"), 2, 1))), 1, 3)

\* r = ((G * mstar * period ** 2 / (4 * np.pi ** 2)) ** (1/3))
RadiusCode ==
  QPow(QDiv(QMul(QMul(Q("G"), Q("mstar")), QPow(Q("period"), 2, 1)),
            QMul(Q("four"), QPow(Q("pi"), 2, 1))), 1, 3)

\* M_p as the challenge text prints it, for the orbital radius rr:
\* V_obs / sin i * sqrt(r M_star / G).
MassText(rr) ==
  QMul(QDiv(Q("vobs"), Q("sini")),
       QPow(QDiv(QMul(rr, Q("mstar")), Q("G")), 1, 2))

\* The mass with the sine multiplied in instead of divided out.
MassCode_TimesSini(rr) ==
  QMul(QMul(Q("vobs"), Q("sini")),
       QPow(QDiv(QMul(rr, Q("mstar")), Q("G")), 1, 2))

\* mp = vobs / sini * np.sqrt(r * mstar / G)
MassCode(rr) ==
  QMul(QDiv(Q("vobs"), Q("sini")),
       QPow(QDiv(QMul(rr, Q("mstar")), Q("G")), 1, 2))

\* np.sqrt(1 - c ** 2) for c in thousandths, in thousandths (rounded down).
Sine(c) ==
  CHOOSE x \in 0..1000 :
    /\ x * x <= 1000000 - c * c
    /\ (x + 1) * (x + 1) > 1000000 - c * c

\* A value with its unit.
Qty(value, unit) == [value |-> value, unit |-> unit]

\* The three assignments of the 'Carried over from Part 1' cell, the values in
\* millionths of the unit (rounded).
CarriedValues ==
  [period        |-> Qty(4230715, "day"),
   amplitude     |-> Qty(56517134, "m/s"),
   amplitude_err |-> Qty(525607, "m/s")]

\* The value a name has in the kernel of the timeseries notebook.
Lookup17(name) ==
  Qty(IF name = "period" /\ period # Unbound
        THEN (1000000 * period.num) \div period.den ELSE 0,
      IF name = "period" THEN "day" ELSE "m/s")

\* The value a carried name has in the kernel of the distributions notebook.
Lookup18(name) == carriedVals[name]

\* N = 1000000
N == 1000000

\* n_samples of every unc.normal / unc.uniform call with vobs drawn with the
\* sample count of Parts 1-2.
NSamples_VobsShort ==
  [distance |-> 10000, velocity |-> 10000, mstar |-> N, cosi |-> N,
   vobs |-> 10000]

\* n_samples of every unc.normal / unc.uniform call of the notebook.
NSamples ==
  [distance |-> 10000, velocity |-> 10000, mstar |-> N, cosi |-> N,
   vobs |-> N]

\* Sample count of an operand that is no Distribution (a Quantity, a number).
Scalar == 0

\* Sample count of the result when the operands' sample axes differ.
Mismatch == -1

\* Sample count of a binary operation on operands with counts a and b.
Combine(a, b) ==
  IF a = Mismatch \/ b = Mismatch THEN Mismatch
  ELSE IF a = Scalar THEN b
  ELSE IF b = Scalar THEN a
  ELSE IF a = b THEN a
  ELSE Mismatch

\* f with the name x bound to v.
Bind(f, x, v) ==
  [y \in DOMAIN f \cup {x} |-> IF y = x THEN v ELSE f[y]]

\* Index of the code cell whose first statement is at the given line.
CellAt(line) == CHOOSE k \in 1..Len(Nb18) : Nb18[k][1].line = line

\* The cells that create or combine distributions, and the challenge cells.
DataCells ==
  { CellAt(84), CellAt(94), CellAt(207), CellAt(233), CellAt(259),
    CellAt(317), CellAt(329), CellAt(346), CellAt(360) }

\* Executing cell k in the kernel, with the required software installed.
Exec18(k) == ExecStmts(Nb18[k], 1, ns18, Modules(Normalise(Required)))

\* Cell k is the next one and runs without raising.
Ok18(k) == pc18 = k /\ Exec18(k).err = ""

\* The effect every executed cell has on the kernel: names bound, the cell
\* recorded when it raised, the next cell selected.
Step18(k) ==
  /\ ns18' = Exec18(k).ns
  /\ errCells' = IF Exec18(k).err = "" THEN errCells ELSE errCells \cup {k}
  /\ pc18' = k + 1

\* A cell that binds no distribution, or a cell that raises.
RunCell18 ==
  /\ pc18 <= Len(Nb18)
  /\ pc18 \notin DataCells \/ Exec18(pc18).err # ""
  /\ Step18(pc18)
  /\ UNCHANGED <<carried, mstar, r, rPlot, carriedVals, nsamples, cosi, sini,
                 vobsArgs, vobs, mp, mpPlot, pct>>
  /\ UNCHANGED <<shellVars, kernelVars, photVars, rvVars>>

\* distance = unc.normal(4 * u.kpc, std=0.5 * u.kpc, n_samples=10000)
Cell_Distance ==
  /\ Ok18(CellAt(84))
  /\ Step18(CellAt(84))
  /\ nsamples' = Bind(nsamples, "distance", NSamples.distance)
  /\ UNCHANGED <<carried, mstar, r, rPlot, carriedVals, cosi, sini,
                 vobsArgs, vobs, mp, mpPlot, pct>>
  /\ UNCHANGED <<shellVars, kernelVars, photVars, rvVars>>

\* velocity = unc.uniform(center=5 * u.km / u.s, width=2 * u.km / u.s,
\* n_samples=10000)
Cell_Velocity ==
  /\ Ok18(CellAt(94))
  /\ Step18(CellAt(94))
  /\ nsamples' = Bind(nsamples, "velocity", NSamples.velocity)
  /\ UNCHANGED <<carried, mstar, r, rPlot, carriedVals, cosi, sini,
                 vobsArgs, vobs, mp, mpPlot, pct>>
  /\ UNCHANGED <<shellVars, kernelVars, photVars, rvVars>>

\* velocity_fixed_time = distance / (2 * u.Myr)
Cell_FixedTime ==
  /\ Ok18(CellAt(207))
  /\ Step18(CellAt(207))
  /\ nsamples' = Bind(nsamples, "velocity_fixed_time",
                      Combine(nsamples["distance"], Scalar))
  /\ UNCHANGED <<carried, mstar, r, rPlot, carriedVals, cosi, sini,
                 vobsArgs, vobs, mp, mpPlot, pct>>
  /\ UNCHANGED <<shellVars, kernelVars, photVars, rvVars>>

\* time = distance / velocity
Cell_Time ==
  /\ Ok18(CellAt(233))
  /\ Step18(CellAt(233))
  /\ nsamples' = Bind(nsamples, "time",
                      Combine(nsamples["distance"], nsamples["velocity"]))
  /\ UNCHANGED <<carried, mstar, r, rPlot, carriedVals, cosi, sini,
                 vobsArgs, vobs, mp, mpPlot, pct>>
  /\ UNCHANGED <<shellVars, kernelVars, photVars, rvVars>>

\* time = distance * np.sqrt(velocity) / (velocity ** 1.5)
Cell_TimeSqrt ==
  /\ Ok18(CellAt(259))
  /\ Step18(CellAt(259))
  /\ nsamples' = Bind(nsamples, "time",
                      Combine(Combine(nsamples["distance"], nsamples["velocity"]),
                              Combine(nsamples["velocity"], Scalar)))
  /\ UNCHANGED <<carried, mstar, r, rPlot, carriedVals, cosi, sini,
                 vobsArgs, vobs, mp, mpPlot, pct>>
  /\ UNCHANGED <<shellVars, kernelVars, photVars, rvVars>>

\* The 'Carried over from Part 1' cell: period, amplitude, amplitude_err.
CarriedOver ==
  /\ ~carried
  /\ Ok18(CellAt(317))
  /\ Step18(CellAt(317))
  /\ carried' = TRUE
  /\ carriedVals' = CarriedValues
  /\ UNCHANGED <<mstar, r, rPlot>>
  /\ UNCHANGED <<nsamples, cosi, sini, vobsArgs, vobs, mp, mpPlot, pct>>
  /\ UNCHANGED <<shellVars, kernelVars, photVars, rvVars>>

\* Cell #8: mstar sampled uniformly, r computed from every sample with the
\* carried period, r converted to au for the histogram.
Cell8 ==
  /\ carried
  /\ Ok18(CellAt(329))
  /\ Step18(CellAt(329))
  /\ \E m \in [1..MaxSamples -> MassVals] :
       /\ mstar' = m
       /\ r' = [i \in 1..MaxSamples |->
                  [expr |-> RadiusCode, mstar |-> m[i],
                   period |-> Lookup18("period").value]]
  /\ rPlot' = ToAu(RadiusCode)
  /\ nsamples' = Bind(Bind(nsamples, "mstar", NSamples.mstar), "r",
                      Combine(Scalar, NSamples.mstar))
  /\ UNCHANGED carried
  /\ UNCHANGED <<carriedVals, cosi, sini, vobsArgs, vobs, mp, mpPlot, pct>>
  /\ UNCHANGED <<shellVars, kernelVars, photVars, rvVars>>

\* Cell #9: cosi sampled uniformly, sini derived from it, vobs sampled from a
\* normal, mp computed sample by sample and converted to M_jup for the
\* histogram.
Cell9 ==
  /\ Ok18(CellAt(346))
  /\ Step18(CellAt(346))
  /\ \E c \in [1..MaxSamples -> CosVals], k \in [1..MaxSamples -> SigmaVals] :
       LET s == [i \in 1..MaxSamples |-> Sine(c[i])]
           v == [i \in 1..MaxSamples |->
                   Lookup18("amplitude").value
                     + k[i] * Lookup18("amplitude_err").value]
       IN /\ cosi' = c
          /\ sini' = s
          /\ vobs' = v
          /\ mp' = [i \in 1..MaxSamples |->
                      [expr |-> MassCode(r[i].expr), vobs |-> v[i],
                       sini |-> s[i], mstar |-> mstar[i]]]
  /\ vobsArgs' = [mean |-> Lookup18("amplitude"),
                  std |-> Lookup18("amplitude_err")]
  /\ mpPlot' = ToMjup(MassCode(r[1].expr))
  /\ nsamples' =
       LET n1 == Bind(nsamples, "cosi", NSamples.cosi)
           n2 == Bind(n1, "sini", Combine(Scalar, n1["cosi"]))
           n3 == Bind(n2, "vobs", NSamples.vobs)
       IN Bind(n3, "mp",
               Combine(Combine(n3["vobs"], n3["sini"]),
                       Combine(Combine(n3["r"], n3["mstar"]), Scalar)))
  /\ UNCHANGED <<carried, mstar, r, rPlot, carriedVals, pct>>
  /\ UNCHANGED <<shellVars, kernelVars, photVars, rvVars>>

\* Cell #10: mp.pdf_percentiles([68.27, 95.45, 99.73]).to(u.M_jup)
Cell10 ==
  /\ Ok18(CellAt(360))
  /\ Step18(CellAt(360))
  /\ pct' = <<6827, 9545, 9973>>
  /\ UNCHANGED <<carried, mstar, r, rPlot, carriedVals, nsamples, cosi, sini,
                 vobsArgs, vobs, mp, mpPlot>>
  /\ UNCHANGED <<shellVars, kernelVars, photVars, rvVars>>

InitDist == CoreIdle /\ PhotIdle /\ RvIdle /\ DistIdle

NextDist ==
  \/ RunCell18
  \/ Cell_Distance
  \/ Cell_Velocity
  \/ Cell_FixedTime
  \/ Cell_Time
  \/ Cell_TimeSqrt
  \/ CarriedOver
  \/ Cell8
  \/ Cell9
  \/ Cell10

SpecDist == InitDist /\ [][NextDist]_vars

\* C6: after cell #8 every sample of r is (G M P / (4 pi^2))^(1/3) of the
\* matching sample of mstar, the period entering to the first power.
C6_RadiusAsChallengeText ==
  r # << >> =>
    \A i \in 1..Len(r) :
      /\ r[i].mstar = mstar[i]
      /\ r[i].expr = RadiusText
      /\ r[i].expr["period"] = 2

\* Names bound by the statements of the cells k0..k1 of the notebook.
BindsOf(k0, k1) ==
  UNION { UNION { Nb18[k][i].binds : i \in 1..Len(Nb18[k]) } : k \in k0..k1 }

\* Names read by the statements of the cells k0..k1 of the notebook.
UsesOf(k0, k1) ==
  UNION { UNION { Nb18[k][i].uses : i \in 1..Len(Nb18[k]) } : k \in k0..k1 }

\* Names the cells #8 to #10 read and do not bind themselves.
Part3Reads ==
  UsesOf(CellAt(329), CellAt(360)) \ BindsOf(CellAt(329), CellAt(360))

\* C13: Part 3 is self-contained and consistent with Parts 1-2. The
\* carried-over cell and cells #8 to #10 run without raising; of the names
\* they do not bind themselves, cells #8 to #10 take period, amplitude and
\* amplitude_err from the carried-over cell (in day, m/s and m/s) and the rest
\* from earlier cells of the same notebook, nothing from the kernel of the
\* timeseries notebook; r and vobs are computed from the carried values; and
\* the carried period lies in the search window, 0.2/day <= 1/period <=
\* 0.3/day.
C13_Part3SelfContained ==
  /\ errCells \cap (CellAt(317)..CellAt(360)) = {}
  /\ period = Unbound /\ foldPeriod = Unbound /\ ts_51peg = << >>
  /\ Part3Reads \cap BindsOf(CellAt(317), CellAt(317))
       = {"period", "amplitude", "amplitude_err"}
  /\ {"period", "amplitude", "amplitude_err"} \cap BindsOf(1, CellAt(317) - 1) = {}
  /\ Part3Reads \subseteq BindsOf(1, CellAt(317))
  /\ carried =>
       /\ carriedVals["period"].unit = "day"
       /\ carriedVals["amplitude"].unit = "m/s"
       /\ carriedVals["amplitude_err"].unit = "m/s"
       /\ MinFrequency * carriedVals["period"].value <= 1000000000
       /\ 1000000000 <= MaxFrequency * carriedVals["period"].value
  /\ r # << >> =>
       \A i \in 1..Len(r) : r[i].period = carriedVals["period"].value
  /\ vobs # << >> =>
       /\ vobsArgs.mean = carriedVals["amplitude"]
       /\ vobsArgs.std = carriedVals["amplitude_err"]
       /\ \A i \in 1..Len(vobs) :
            \E k \in SigmaVals :
              vobs[i] = carriedVals["amplitude"].value
                          + k * carriedVals["amplitude_err"].value

\* Cells #8 to #10 have all run, none of them raised, and r was computed with
\* the carried period of 4.230715 day.
C13_Witness ==
  /\ pct # << >>
  /\ errCells \cap (CellAt(317)..CellAt(360)) = {}
  /\ r[1].period = 4230715
  /\ vobsArgs.mean.value = 56517134

\* C14: step 9 computes the companion mass as the challenge text gives it,
\* M_p = V_obs / sin i * sqrt(r M_star / G), sample by sample; every cos i
\* lies in [-1, 1], sin i is sqrt(1 - cos^2 i) and so lies in [0, 1]; V_obs
\* is normal with mean amplitude and standard deviation amplitude_err; the mass
\* converts to M_jup; and step 10 asks for the percentiles 68.27, 95.45 and
\* 99.73.
C14_CompanionMass ==
  /\ mp # << >> =>
       /\ \A i \in 1..Len(mp) :
            /\ mp[i].expr = MassText(r[i].expr)
            /\ mp[i].vobs = vobs[i] /\ mp[i].sini = sini[i]
            /\ mp[i].mstar = mstar[i] /\ r[i].mstar = mstar[i]
            /\ -1000 <= cosi[i] /\ cosi[i] <= 1000
            /\ 0 <= sini[i] /\ sini[i] <= 1000
            /\ sini[i] * sini[i] <= 1000000 - cosi[i] * cosi[i]
            /\ (sini[i] + 1) * (sini[i] + 1) > 1000000 - cosi[i] * cosi[i]
       /\ vobsArgs = [mean |-> CarriedValues.amplitude,
                      std |-> CarriedValues.amplitude_err]
       /\ mpPlot = "ok"
  /\ pct # << >> => pct = <<6827, 9545, 9973>>

\* Steps 9 and 10 have run; one sample has cos i = 0.6, sin i = 0.8, another
\* cos i = -1, sin i = 0.
C14_Witness ==
  /\ pct = <<6827, 9545, 9973>>
  /\ cosi[1] = 600 /\ sini[1] = 800 /\ mp[1].sini = 800
  /\ cosi[2] = -1000 /\ sini[2] = 0
  /\ vobs[1] = 56517134 + 525607

\* Names bound to a distribution of Parts 1 and 2, and of Part 3.
Part12Dists == {"distance", "velocity", "velocity_fixed_time", "time"}
Part3Dists == {"mstar", "r", "cosi", "sini", "vobs", "mp"}

\* C15: whenever two distributions are combined they have the same number of
\* samples: distance, velocity and what is derived from them have 10000
\* samples, mstar, cosi, vobs and what is derived from them (r, sini, mp) have
\* N = 1000000, and no expression mixes the two groups.
C15_SampleCountsMatch ==
  /\ DOMAIN nsamples \subseteq Part12Dists \cup Part3Dists
  /\ \A x \in DOMAIN nsamples :
       /\ nsamples[x] # Mismatch
       /\ x \in Part12Dists => nsamples[x] = 10000
       /\ x \in Part3Dists => nsamples[x] = 1000000
  /\ N = 1000000
  /\ mp # << >> =>
       /\ Len(mp) = Len(vobs) /\ Len(mp) = Len(sini) /\ Len(mp) = Len(cosi)
       /\ Len(mp) = Len(r) /\ Len(mp) = Len(mstar)

\* Every cell has run: time has 10000 samples and mp has 1000000.
C15_Witness ==
  /\ DOMAIN nsamples = Part12Dists \cup Part3Dists
  /\ nsamples["time"] = 10000
  /\ nsamples["mp"] = 1000000
  /\ pc18 > Len(Nb18)
====
